---- MODULE Spec2Model ----
(***************************************************************************)
(* go-logrun: a LogRun wraps an execution primitive (run.Runner, local or  *)
(* remote), a logging callback and a dry-run flag.  Every operation first  *)
(* logs the formatted command and then, unless dry-run says otherwise,     *)
(* hands it to the primitive.                                              *)
(*                                                                         *)
(* Text is modelled as a sequence of atoms: an atom is a piece of text the *)
(* code never looks inside ("/usr/bin/stat", "regular file"), and the      *)
(* separators the code does look for (" ", ":", "\n") are atoms of their   *)
(* own.  Concatenation is \o, the empty string is << >>.                   *)
(* An optional value (an error, a *LogRun) is a sequence of length 0 (nil) *)
(* or 1.  Inputs and return values are records, so that any two of them    *)
(* can be compared.                                                        *)
(***************************************************************************)
EXTENDS Integers, Sequences, FiniteSets, TLC

VARIABLES runners, last, events, ncalls, memo, memoOn, inflight

vars == <<runners, last, events, ncalls, memo, memoOn, inflight>>

(***************************************************************************)
(* Bounds                                                                  *)
(***************************************************************************)
\* number of logging calls (Run, Shell and the derived operations) a caller issues
MaxCalls == 2

(***************************************************************************)
(* Text helpers (Go's strings package)                                     *)
(***************************************************************************)
S(a) == <<a>>

SP == " "
NL == "\n"
TAB == "\t"
COLON == ":"
QUOTE == "\""

RECURSIVE Join(_, _)
\* strings.Join(elems, sep)
Join(elems, sep) ==
    IF Len(elems) = 0 THEN << >>
    ELSE IF Len(elems) = 1 THEN elems[1]
    ELSE elems[1] \o sep \o Join(Tail(elems), sep)

\* strings.Contains(s, substr)
Contains(s, substr) ==
    \E i \in 0..(Len(s) - Len(substr)) :
        \A k \in 1..Len(substr) : s[i + k] = substr[k]

RECURSIVE SplitFrom(_, _, _)
\* the fields of s separated by the atom sep, cur being the field under way
SplitFrom(s, sep, cur) ==
    IF Len(s) = 0 THEN <<cur>>
    ELSE IF Head(s) = sep THEN <<cur>> \o SplitFrom(Tail(s), sep, << >>)
    ELSE SplitFrom(Tail(s), sep, Append(cur, Head(s)))

\* strings.Split(s, sep) for a one-atom separator: never an empty list
Split(s, sep) == SplitFrom(s, sep, << >>)

IsSpace(a) == a \in {SP, NL, TAB}

RECURSIVE TrimLeft(_)
TrimLeft(s) ==
    IF Len(s) > 0 /\ IsSpace(Head(s)) THEN TrimLeft(Tail(s)) ELSE s

RECURSIVE TrimRight(_)
TrimRight(s) ==
    IF Len(s) > 0 /\ IsSpace(s[Len(s)])
    THEN TrimRight(SubSeq(s, 1, Len(s) - 1)) ELSE s

\* strings.TrimSpace(s)
TrimSpace(s) == TrimRight(TrimLeft(s))

(***************************************************************************)
(* Exit codes                                                              *)
(***************************************************************************)
ExitOK == 0
ExitErrorInternal == 1
ExitErrorExecute == ExitErrorInternal

(***************************************************************************)
(* Package variables: the external commands of the derived operations      *)
(***************************************************************************)
FileExistsCmd == S("/usr/bin/stat")
FileExistsCmdOptions == <<S("--dereference"), S("--format"), S("%n:%F")>>
DirExistsCmd == S("/usr/bin/stat")
DirExistsCmdOptions == <<S("--dereference"), S("--format"), S("%n:%F")>>
GlobCmd == S("/bin/ls")
GlobCmdOptions == <<S("-1"), S("--directory")>>
RsyncCmd == S("/usr/bin/rsync")
RsyncCmdOptions ==
    <<S("--rsh"),
      S("ssh -q -o StrictHostKeyChecking=no -o UserKnownHostsFile=/dev/null -o GlobalKnownHostsFile=/dev/null"),
      S("--recursive"), S("--links"), S("--times")>>

(***************************************************************************)
(* Logging callbacks.  NilFunc is Go's nil function value: calling it      *)
(* panics.  DiscardLogFunc and the caller's function L are callable.       *)
(***************************************************************************)
NilFunc == "nil"
DiscardLogFunc == "DiscardLogFunc"
DefaultLogFunc == DiscardLogFunc
UserLogFunc == "L"
LogFuncs == {NilFunc, DiscardLogFunc, UserLogFunc}

(***************************************************************************)
(* The execution primitive (run.Runner of the external go-run package).    *)
(* A local primitive is its shell path; a remote one adds the ssh target.  *)
(***************************************************************************)
DefaultShell == S("/bin/sh")
ShellExecutables == {<< >>}
SshTarget == S("buildman@localhost")

\* run.NewLocal(run.LocalConfig{ShellExecutable: ...})
NewLocal(shellExecutable) ==
    [kind |-> "local",
     shell |-> IF shellExecutable = << >> THEN DefaultShell ELSE shellExecutable]

\* run.NewRemote(run.RemoteConfig{...}) when it succeeds
NewRemote(shellExecutable) ==
    [kind |-> "remote",
     shell |-> IF shellExecutable = << >> THEN DefaultShell ELSE shellExecutable]

\* what a remote primitive puts in front of every command
Prefix(R) ==
    IF R.kind = "remote" THEN S("ssh") \o S(SP) \o SshTarget \o S(SP) ELSE << >>

\* FormatRun, putting an argument that contains a space between quotes
RunnerFormatRun_QuotesArgs(R, cmd, args) ==
    Prefix(R) \o Join(<<cmd>> \o [i \in 1..Len(args) |->
                                    IF Contains(args[i], S(SP))
                                    THEN S(QUOTE) \o args[i] \o S(QUOTE)
                                    ELSE args[i]], S(SP))

\* r.Runner.FormatRun(cmd, args...)
RunnerFormatRun(R, cmd, args) == Prefix(R) \o Join(<<cmd>> \o args, S(SP))

\* r.Runner.FormatShell(cmd)
RunnerFormatShell(R, cmd) ==
    Prefix(R) \o R.shell \o S(SP) \o S("-c") \o S(SP) \o S(QUOTE) \o cmd \o S(QUOTE)

\* what one invocation of r.Runner.Run / r.Runner.Shell can hand back:
\* (stdout, stderr, code, err), err being nil (<< >>) or <<description>>
Outcome(stdout, stderr, code, err) ==
    [stdout |-> stdout, stderr |-> stderr, code |-> code, err |-> err]

NoSuchFile == S("No such file or directory")
ExecErrText == S("fork/exec: no such file or directory")
SshErrText == S("ssh: handshake failed")

\* results any command can end with
GenericOutcomes ==
    { Outcome(<< >>, << >>, 0, << >>),
      Outcome(S("1") \o S(NL), << >>, 0, << >>),
      Outcome(<< >>, << >>, 1, << >>),
      Outcome(S("out"), S("oops") \o S(NL), 2, << >>),
      Outcome(<< >>, << >>, 0, <<ExecErrText>>),
      Outcome(S("partial"), S("junk"), 3, <<SshErrText>>) }

\* what stat prints for a path: "%n:%F" and a newline
StatLine(path, type) == path \o S(COLON) \o S(type) \o S(NL)

FileTypes == {"regular file", "regular empty file", "directory"}

StatOutcomes(path) ==
    { Outcome(StatLine(path, t), << >>, 0, << >>) : t \in FileTypes }
    \cup { Outcome(<< >>, S("stat: cannot stat ") \o path \o S(": ") \o NoSuchFile \o S(NL), 1, << >>),
           Outcome(S("denied"), S("stat: permission denied"), 1, << >>),
           Outcome(<< >>, << >>, 0, << >>),
           Outcome(<< >>, << >>, 0, <<ExecErrText>>),
           Outcome(<< >>, << >>, 0, <<S("ssh: ") \o NoSuchFile>>) }

LsOutcomes ==
    { Outcome(S("/etc/passwd") \o S(NL) \o S("/etc/passwd-") \o S(NL), << >>, 0, << >>),
      Outcome(S(SP) \o S("/bin/true") \o S(TAB) \o S(NL) \o S(NL), << >>, 0, << >>),
      Outcome(<< >>, << >>, 0, << >>),
      Outcome(<< >>, S("ls: cannot access: ") \o NoSuchFile \o S(NL), 2, << >>),
      Outcome(S("/stale"), S("junk"), 0, <<SshErrText>>) }

\* the results the primitive can produce for a command
PrimOutcomes(cmd, args) ==
    IF cmd = FileExistsCmd /\ Len(args) > 0 THEN StatOutcomes(args[Len(args)])
    ELSE IF Len(cmd) > 0 /\ <<Head(cmd)>> = GlobCmd THEN LsOutcomes
    ELSE GenericOutcomes

(***************************************************************************)
(* What one call does: the steps it takes, in order (a "log" step is one   *)
(* invocation of the callback, an "exec" step one invocation of the        *)
(* primitive together with what the primitive handed back), and what it    *)
(* returns: <<value>>, or << >> when the call panics.                      *)
(***************************************************************************)
\* what callback f writes when it is handed msg
Emitted(f, msg) == IF f = DiscardLogFunc THEN << >> ELSE <<msg>>

LogStep(f, msg) == [kind |-> "log", f |-> f, msg |-> msg]
ExecStep(fn, cmd, args, p) ==
    [kind |-> "exec", fn |-> fn, cmd |-> cmd, args |-> args, prim |-> p]

Returned(steps, value) == [steps |-> steps, ret |-> <<value>>]
Panicked(steps) == [steps |-> steps, ret |-> << >>]

\* fmt.Errorf with the pieces of its message already in order
Errorf(pieces) == Join(pieces, << >>)

\* run, keeping what the primitive captured when it signals an error
run_KeepsOutput(p) ==
    IF p.err # << >>
    THEN [stdout |-> p.stdout, stderr |-> p.err[1], code |-> ExitErrorExecute]
    ELSE [stdout |-> p.stdout, stderr |-> p.stderr, code |-> p.code]

\* (r *LogRun) run / shell: the primitive's result seen through the error mapping
run(p) ==
    IF p.err # << >>
    THEN [stdout |-> << >>, stderr |-> p.err[1], code |-> ExitErrorExecute]
    ELSE [stdout |-> p.stdout, stderr |-> p.stderr, code |-> p.code]

\* shell, keeping what the primitive captured when it signals an error
shell_KeepsOutput(p) ==
    IF p.err # << >>
    THEN [stdout |-> p.stdout, stderr |-> p.err[1], code |-> ExitErrorExecute]
    ELSE [stdout |-> p.stdout, stderr |-> p.stderr, code |-> p.code]

\* shell, reporting every failing command with the execution-failure code
shell_FlattensCode(p) ==
    IF p.err # << >>
    THEN [stdout |-> << >>, stderr |-> p.err[1], code |-> ExitErrorExecute]
    ELSE [stdout |-> p.stdout, stderr |-> p.stderr,
          code |-> IF p.code # 0 THEN ExitErrorExecute ELSE p.code]

shell(p) ==
    IF p.err # << >>
    THEN [stdout |-> << >>, stderr |-> p.err[1], code |-> ExitErrorExecute]
    ELSE [stdout |-> p.stdout, stderr |-> p.stderr, code |-> p.code]

\* FormatRun, marking the string while dry-run is on
FormatRun_TagsDryrun(rr, cmd, args) ==
    IF rr.Dryrun THEN S("dry-run: ") \o RunnerFormatRun(rr.Runner, cmd, args)
    ELSE RunnerFormatRun(rr.Runner, cmd, args)

\* (r *LogRun) FormatRun / FormatShell
FormatRun(rr, cmd, args) == RunnerFormatRun(rr.Runner, cmd, args)
FormatShell(rr, cmd) == RunnerFormatShell(rr.Runner, cmd)

DryrunResult == [stdout |-> << >>, stderr |-> << >>, code |-> ExitOK]

\* Run, logging only the commands it goes on to execute
RunCall_LogsOnlyWhenRunning(rr, cmd, args, p) ==
    LET msg == RunnerFormatRun(rr.Runner, cmd, args) IN
    IF rr.Dryrun THEN Returned(<< >>, DryrunResult)
    ELSE IF rr.logFunc = NilFunc THEN Panicked(<< >>)
    ELSE Returned(<<LogStep(rr.logFunc, msg), ExecStep("Run", cmd, args, p)>>,
                  run(p))

\* Run, logging after the primitive has run the command
RunCall_ExecFirst(rr, cmd, args, p) ==
    LET msg == RunnerFormatRun(rr.Runner, cmd, args) IN
    IF rr.logFunc = NilFunc THEN Panicked(<< >>)
    ELSE IF rr.Dryrun THEN Returned(<<LogStep(rr.logFunc, msg)>>, DryrunResult)
    ELSE Returned(<<ExecStep("Run", cmd, args, p), LogStep(rr.logFunc, msg)>>,
                  run(p))

\* Run, logging the command without its arguments
RunCall_LogsBareCmd(rr, cmd, args, p) ==
    LET msg == RunnerFormatRun(rr.Runner, cmd, << >>) IN
    IF rr.logFunc = NilFunc THEN Panicked(<< >>)
    ELSE IF rr.Dryrun THEN Returned(<<LogStep(rr.logFunc, msg)>>, DryrunResult)
    ELSE Returned(<<LogStep(rr.logFunc, msg), ExecStep("Run", cmd, args, p)>>,
                  run(p))

\* Run, invoking the primitive a second time when the first invocation fails
RunCall_RetriesOnFailure(rr, cmd, args, p) ==
    LET msg == RunnerFormatRun(rr.Runner, cmd, args) IN
    IF rr.logFunc = NilFunc THEN Panicked(<< >>)
    ELSE IF rr.Dryrun THEN Returned(<<LogStep(rr.logFunc, msg)>>, DryrunResult)
    ELSE IF run(p).code # 0
    THEN Returned(<<LogStep(rr.logFunc, msg), ExecStep("Run", cmd, args, p),
                    ExecStep("Run", cmd, args, p)>>, run(p))
    ELSE Returned(<<LogStep(rr.logFunc, msg), ExecStep("Run", cmd, args, p)>>,
                  run(p))

\* (r *LogRun) Run on the LogRun value rr, p being what the primitive hands
\* back if it is invoked
RunCall(rr, cmd, args, p) ==
    LET msg == RunnerFormatRun(rr.Runner, cmd, args) IN
    IF rr.logFunc = NilFunc THEN Panicked(<< >>)
    ELSE IF rr.Dryrun THEN Returned(<<LogStep(rr.logFunc, msg)>>, DryrunResult)
    ELSE Returned(<<LogStep(rr.logFunc, msg), ExecStep("Run", cmd, args, p)>>,
                  run(p))

\* Shell, without the dry-run test
ShellCall_IgnoresDryrun(rr, cmd, p) ==
    LET msg == RunnerFormatShell(rr.Runner, cmd) IN
    IF rr.logFunc = NilFunc THEN Panicked(<< >>)
    ELSE Returned(<<LogStep(rr.logFunc, msg), ExecStep("Shell", cmd, << >>, p)>>,
                  shell(p))

\* (r *LogRun) Shell
ShellCall(rr, cmd, p) ==
    LET msg == RunnerFormatShell(rr.Runner, cmd) IN
    IF rr.logFunc = NilFunc THEN Panicked(<< >>)
    ELSE IF rr.Dryrun THEN Returned(<<LogStep(rr.logFunc, msg)>>, DryrunResult)
    ELSE Returned(<<LogStep(rr.logFunc, msg), ExecStep("Shell", cmd, << >>, p)>>,
                  shell(p))

\* FileExists, treating a missing path like any other failure of the command
FileExistsCall_MissingIsError(rr, filename, p) ==
    LET cmdArgs == Append(FileExistsCmdOptions, filename)
        logged  == <<LogStep(rr.logFunc, RunnerFormatRun(rr.Runner, FileExistsCmd, cmdArgs))>>
        steps   == logged \o <<ExecStep("Run", FileExistsCmd, cmdArgs, p)>>
        res     == run(p)
        parts   == Split(res.stdout, COLON)
        fileType == TrimSpace(parts[2])
    IN
    IF rr.logFunc = NilFunc THEN Panicked(<< >>)
    ELSE IF rr.Dryrun THEN Returned(logged, [ok |-> TRUE, err |-> << >>])
    ELSE IF res.code # 0
    THEN Returned(steps, [ok |-> FALSE,
                  err |-> <<Errorf(<<S("could not access "), filename, S(": "), res.stdout>>)>>])
    ELSE IF Len(parts) < 2 THEN Panicked(steps)
    ELSE IF fileType # S("regular file") /\ fileType # S("regular empty file")
    THEN Returned(steps, [ok |-> FALSE,
                  err |-> <<Errorf(<<filename, S(" is not a regular file")>>)>>])
    ELSE Returned(steps, [ok |-> TRUE, err |-> << >>])

\* FileExists, building the error of a failed command from its stderr
FileExistsCall_WrapsStderr(rr, filename, p) ==
    LET cmdArgs == Append(FileExistsCmdOptions, filename)
        logged  == <<LogStep(rr.logFunc, RunnerFormatRun(rr.Runner, FileExistsCmd, cmdArgs))>>
        steps   == logged \o <<ExecStep("Run", FileExistsCmd, cmdArgs, p)>>
        res     == run(p)
        parts   == Split(res.stdout, COLON)
        fileType == TrimSpace(parts[2])
    IN
    IF rr.logFunc = NilFunc THEN Panicked(<< >>)
    ELSE IF rr.Dryrun THEN Returned(logged, [ok |-> TRUE, err |-> << >>])
    ELSE IF res.code # 0
    THEN IF Contains(res.stderr, NoSuchFile)
         THEN Returned(steps, [ok |-> FALSE, err |-> << >>])
         ELSE Returned(steps, [ok |-> FALSE,
                  err |-> <<Errorf(<<S("could not access "), filename, S(": "), res.stderr>>)>>])
    ELSE IF Len(parts) < 2 THEN Panicked(steps)
    ELSE IF fileType # S("regular file") /\ fileType # S("regular empty file")
    THEN Returned(steps, [ok |-> FALSE,
                  err |-> <<Errorf(<<filename, S(" is not a regular file")>>)>>])
    ELSE Returned(steps, [ok |-> TRUE, err |-> << >>])

\* (r *LogRun) FileExists
FileExistsCall(rr, filename, p) ==
    LET cmdArgs == Append(FileExistsCmdOptions, filename)
        logged  == <<LogStep(rr.logFunc, RunnerFormatRun(rr.Runner, FileExistsCmd, cmdArgs))>>
        steps   == logged \o <<ExecStep("Run", FileExistsCmd, cmdArgs, p)>>
        res     == run(p)
        parts   == Split(res.stdout, COLON)
        fileType == TrimSpace(parts[2])
    IN
    IF rr.logFunc = NilFunc THEN Panicked(<< >>)
    ELSE IF rr.Dryrun THEN Returned(logged, [ok |-> TRUE, err |-> << >>])
    ELSE IF res.code # 0
    THEN IF Contains(res.stderr, NoSuchFile)
         THEN Returned(steps, [ok |-> FALSE, err |-> << >>])
         ELSE Returned(steps, [ok |-> FALSE,
                  err |-> <<Errorf(<<S("could not access "), filename, S(": "), res.stdout>>)>>])
    ELSE IF Len(parts) < 2 THEN Panicked(steps)
    ELSE IF fileType # S("regular file") /\ fileType # S("regular empty file")
    THEN Returned(steps, [ok |-> FALSE,
                  err |-> <<Errorf(<<filename, S(" is not a regular file")>>)>>])
    ELSE Returned(steps, [ok |-> TRUE, err |-> << >>])

\* DirExists, without the dry-run test
DirExistsCall_IgnoresDryrun(rr, dirname, p) ==
    LET cmdArgs == Append(DirExistsCmdOptions, dirname)
        logged  == <<LogStep(rr.logFunc, RunnerFormatRun(rr.Runner, DirExistsCmd, cmdArgs))>>
        steps   == logged \o <<ExecStep("Run", DirExistsCmd, cmdArgs, p)>>
        res     == run(p)
        parts   == Split(res.stdout, COLON)
    IN
    IF rr.logFunc = NilFunc THEN Panicked(<< >>)
    ELSE IF res.code # 0
    THEN IF Contains(res.stderr, NoSuchFile)
         THEN Returned(steps, [ok |-> FALSE, err |-> << >>])
         ELSE Returned(steps, [ok |-> FALSE,
                  err |-> <<Errorf(<<S("could not access "), dirname, S(": "), res.stdout>>)>>])
    ELSE IF Len(parts) < 2 THEN Panicked(steps)
    ELSE IF TrimSpace(parts[2]) # S("directory")
    THEN Returned(steps, [ok |-> FALSE,
                  err |-> <<Errorf(<<dirname, S(" is not a directory")>>)>>])
    ELSE Returned(steps, [ok |-> TRUE, err |-> << >>])

\* (r *LogRun) DirExists
DirExistsCall(rr, dirname, p) ==
    LET cmdArgs == Append(DirExistsCmdOptions, dirname)
        logged  == <<LogStep(rr.logFunc, RunnerFormatRun(rr.Runner, DirExistsCmd, cmdArgs))>>
        steps   == logged \o <<ExecStep("Run", DirExistsCmd, cmdArgs, p)>>
        res     == run(p)
        parts   == Split(res.stdout, COLON)
    IN
    IF rr.logFunc = NilFunc THEN Panicked(<< >>)
    ELSE IF rr.Dryrun THEN Returned(logged, [ok |-> TRUE, err |-> << >>])
    ELSE IF res.code # 0
    THEN IF Contains(res.stderr, NoSuchFile)
         THEN Returned(steps, [ok |-> FALSE, err |-> << >>])
         ELSE Returned(steps, [ok |-> FALSE,
                  err |-> <<Errorf(<<S("could not access "), dirname, S(": "), res.stdout>>)>>])
    ELSE IF Len(parts) < 2 THEN Panicked(steps)
    ELSE IF TrimSpace(parts[2]) # S("directory")
    THEN Returned(steps, [ok |-> FALSE,
                  err |-> <<Errorf(<<dirname, S(" is not a directory")>>)>>])
    ELSE Returned(steps, [ok |-> TRUE, err |-> << >>])

RECURSIVE GlobLines(_)
\* the loop of Glob over the lines of stdout: trim each, keep the non-empty
GlobLines(lines) ==
    IF Len(lines) = 0 THEN << >>
    ELSE LET line == TrimSpace(Head(lines)) IN
         (IF line # << >> THEN <<line>> ELSE << >>) \o GlobLines(Tail(lines))

\* the command line Glob hands to the shell
GlobCmdLine(pattern) == Join(<<GlobCmd>> \o GlobCmdOptions \o <<pattern>>, S(SP))

\* Glob, returning early under dry-run as FileExists and DirExists do
GlobCall_HonorsDryrun(rr, pattern, p) ==
    LET cmd   == GlobCmdLine(pattern)
        logged == <<LogStep(rr.logFunc, RunnerFormatShell(rr.Runner, cmd))>>
        steps == logged \o <<ExecStep("Shell", cmd, << >>, p)>>
        res   == shell(p)
    IN
    IF rr.logFunc = NilFunc THEN Panicked(<< >>)
    ELSE IF rr.Dryrun THEN Returned(logged, [paths |-> << >>, err |-> << >>])
    ELSE IF res.code # 0
    THEN Returned(steps, [paths |-> << >>,
                  err |-> <<Errorf(<<S("glob '"), pattern, S("' failed: "), res.stderr>>)>>])
    ELSE Returned(steps, [paths |-> GlobLines(Split(res.stdout, NL)), err |-> << >>])

\* Glob, returning what the listing printed together with the error
GlobCall_ParsesOnError(rr, pattern, p) ==
    LET cmd   == GlobCmdLine(pattern)
        steps == <<LogStep(rr.logFunc, RunnerFormatShell(rr.Runner, cmd)),
                   ExecStep("Shell", cmd, << >>, p)>>
        res   == shell_KeepsOutput(p)
    IN
    IF rr.logFunc = NilFunc THEN Panicked(<< >>)
    ELSE IF res.code # 0
    THEN Returned(steps, [paths |-> GlobLines(Split(res.stdout, NL)),
                  err |-> <<Errorf(<<S("glob '"), pattern, S("' failed: "), res.stderr>>)>>])
    ELSE Returned(steps, [paths |-> GlobLines(Split(res.stdout, NL)), err |-> << >>])

\* Glob, trimming the lines of stdout and keeping the empty ones
GlobCall_KeepsEmptyLines(rr, pattern, p) ==
    LET cmd   == GlobCmdLine(pattern)
        steps == <<LogStep(rr.logFunc, RunnerFormatShell(rr.Runner, cmd)),
                   ExecStep("Shell", cmd, << >>, p)>>
        res   == shell(p)
        lines == Split(res.stdout, NL)
    IN
    IF rr.logFunc = NilFunc THEN Panicked(<< >>)
    ELSE IF res.code # 0
    THEN Returned(steps, [paths |-> << >>,
                  err |-> <<Errorf(<<S("glob '"), pattern, S("' failed: "), res.stderr>>)>>])
    ELSE Returned(steps, [paths |-> [i \in 1..Len(lines) |-> TrimSpace(lines[i])],
                          err |-> << >>])

\* (r *LogRun) Glob
GlobCall(rr, pattern, p) ==
    LET cmd   == GlobCmdLine(pattern)
        steps == <<LogStep(rr.logFunc, RunnerFormatShell(rr.Runner, cmd)),
                   ExecStep("Shell", cmd, << >>, p)>>
        res   == shell(p)
    IN
    IF rr.logFunc = NilFunc THEN Panicked(<< >>)
    ELSE IF res.code # 0
    THEN Returned(steps, [paths |-> << >>,
                  err |-> <<Errorf(<<S("glob '"), pattern, S("' failed: "), res.stderr>>)>>])
    ELSE Returned(steps, [paths |-> GlobLines(Split(res.stdout, NL)), err |-> << >>])

\* Rsync, handing the command to the primitive without going through Run
RsyncCall_BypassesRun(rr, src, dest, p) ==
    LET cmdArgs == RsyncCmdOptions \o <<src, dest>>
        steps   == <<LogStep(rr.logFunc, RunnerFormatRun(rr.Runner, RsyncCmd, cmdArgs)),
                     ExecStep("Run", RsyncCmd, cmdArgs, p)>>
        res     == run(p)
    IN
    IF rr.logFunc = NilFunc THEN Panicked(<< >>)
    ELSE IF res.code # 0
    THEN Returned(steps,
                  [err |-> <<Errorf(<<S("rsync command failed: "), res.stderr>>)>>])
    ELSE Returned(steps, [err |-> << >>])

\* Rsync, dropping the failure of the command
RsyncCall_DropsError(rr, src, dest, p) ==
    LET cmdArgs == RsyncCmdOptions \o <<src, dest>>
        c       == RunCall(rr, RsyncCmd, cmdArgs, p)
    IN
    IF c.ret = << >> THEN c
    ELSE Returned(c.steps, [err |-> << >>])

\* Rsync, putting source and destination in front of the options
RsyncCall_ArgsBeforeOptions(rr, src, dest, p) ==
    LET cmdArgs == <<src, dest>> \o RsyncCmdOptions
        c       == RunCall(rr, RsyncCmd, cmdArgs, p)
    IN
    IF c.ret = << >> THEN c
    ELSE IF c.ret[1].code # 0
    THEN Returned(c.steps,
                  [err |-> <<Errorf(<<S("rsync command failed: "), c.ret[1].stderr>>)>>])
    ELSE Returned(c.steps, [err |-> << >>])

\* (r *LogRun) Rsync
RsyncCall(rr, src, dest, p) ==
    LET cmdArgs == RsyncCmdOptions \o <<src, dest>>
        c       == RunCall(rr, RsyncCmd, cmdArgs, p)
    IN
    IF c.ret = << >> THEN c
    ELSE IF c.ret[1].code # 0
    THEN Returned(c.steps,
                  [err |-> <<Errorf(<<S("rsync command failed: "), c.ret[1].stderr>>)>>])
    ELSE Returned(c.steps, [err |-> << >>])

(***************************************************************************)
(* Constructors                                                            *)
(***************************************************************************)
LocalConfigs ==
    [LogFunc : LogFuncs, ShellExecutable : ShellExecutables, Dryrun : BOOLEAN]
RemoteConfigs ==
    [LogFunc : LogFuncs, ShellExecutable : {<< >>}, Dryrun : BOOLEAN]

\* the zero value LocalConfig{}
ZeroLocalConfig == [LogFunc |-> NilFunc, ShellExecutable |-> << >>, Dryrun |-> FALSE]

\* a local LogRun that takes the config's callback as it is, nil included
LocalLogRun_KeepsNil(config) ==
    [Runner  |-> NewLocal(config.ShellExecutable),
     logFunc |-> config.LogFunc,
     Dryrun  |-> config.Dryrun]

\* the *LogRun NewLocalLogRun(config) returns
LocalLogRun(config) ==
    [Runner  |-> NewLocal(config.ShellExecutable),
     logFunc |-> IF config.LogFunc = NilFunc THEN DefaultLogFunc ELSE config.LogFunc,
     Dryrun  |-> config.Dryrun]

\* the *LogRun NewRemoteLogRun(config) returns when run.NewRemote succeeds
RemoteLogRun(config) ==
    [Runner  |-> NewRemote(config.ShellExecutable),
     logFunc |-> IF config.LogFunc = NilFunc THEN DefaultLogFunc ELSE config.LogFunc,
     Dryrun  |-> config.Dryrun]

(***************************************************************************)
(* State.                                                                  *)
(*   runners  the LogRun values: "std" is the package's standard runner,   *)
(*            "r" the one the caller constructs (<< >> until then)         *)
(*   last     the most recent call: operation, runner, inputs, the flag    *)
(*            and callback it found, its steps and its return value        *)
(*   events   the log and exec steps of all calls so far, each tagged with *)
(*            the number of the call that took it                          *)
(*   ncalls   Run, Shell and derived-operation calls issued so far         *)
(*   memo     the first FormatRun/FormatShell call of the run, kept when   *)
(*            memoOn says so (a history variable, fixed at the start)      *)
(*   inflight the Run or Shell call of a second caller that has logged its  *)
(*            command and not yet read the flag, or that has returned       *)
(*            (<< >> while every call is taken in one step)                 *)
(***************************************************************************)
RunnerIds == {"std", "r"}

Cmds == {S("/bin/true"), S("/bin/xyzzy")}
ArgLists == {<< >>, <<S("a") \o S(SP) \o S("b"), S("-c")>>}
ShellLines == {S("seq 1 3 | grep 2"), S("/bin/false")}
Paths == {S("/etc"), S("/tmp/a") \o S(COLON) \o S("b")}
Patterns == {S("/etc/passwd*"), S("xy*zzy")}
Sources == {S("/bin/true"), S("host:/etc/cron.daily/")}
Dests == {S("/tmp/dest/")}
ConstructErr == S("ssh: unable to authenticate")

NoCall ==
    [op |-> "none", r |-> "std", in |-> [cmd |-> << >>], dry |-> FALSE,
     logFunc |-> DefaultLogFunc, steps |-> << >>, ret |-> << >>]

Init ==
    /\ runners = [id \in RunnerIds |->
                    IF id = "std" THEN <<LocalLogRun(ZeroLocalConfig)>> ELSE << >>]
    /\ last = NoCall
    /\ events = << >>
    /\ ncalls = 0
    /\ memo = << >>
    /\ memoOn = FALSE
    /\ inflight = << >>

\* the same start, with the first Format call being remembered
InitFormat ==
    /\ runners = [id \in RunnerIds |->
                    IF id = "std" THEN <<LocalLogRun(ZeroLocalConfig)>> ELSE << >>]
    /\ last = NoCall
    /\ events = << >>
    /\ ncalls = 0
    /\ memo = << >>
    /\ memoOn = TRUE
    /\ inflight = << >>

Constructed(r) == runners[r] # << >>

\* the events a call's steps add to the trace
RECURSIVE Tagged(_, _)
Tagged(n, steps) ==
    IF Len(steps) = 0 THEN << >>
    ELSE <<[call |-> n, kind |-> Head(steps).kind]>> \o Tagged(n, Tail(steps))

\* record call c of operation op on runner r with inputs in
Record(op, r, in, c) ==
    /\ last' = [op |-> op, r |-> r, in |-> in, dry |-> runners[r][1].Dryrun,
                logFunc |-> runners[r][1].logFunc, steps |-> c.steps, ret |-> c.ret]
    /\ events' = events \o Tagged(ncalls + 1, c.steps)
    /\ ncalls' = ncalls + 1

(***************************************************************************)
(* Operations                                                              *)
(***************************************************************************)
NewLocalLogRun(config) ==
    /\ ~Constructed("r")
    /\ runners' = [runners EXCEPT !["r"] = <<LocalLogRun(config)>>]
    /\ last' = [NoCall EXCEPT !.op = "NewLocalLogRun", !.r = "r", !.in = [config |-> config],
                              !.ret = <<[r |-> <<"r">>, err |-> << >>]>>]
    /\ UNCHANGED <<events, ncalls, memo, memoOn, inflight>>

\* NewRemoteLogRun, handing back the LogRun along with the error
NewRemoteLogRunCall_ReturnsRunnerOnError(config, ok) ==
    IF ~ok THEN [r |-> <<RemoteLogRun(config)>>, err |-> <<ConstructErr>>]
    ELSE [r |-> <<RemoteLogRun(config)>>, err |-> << >>]

\* what NewRemoteLogRun(config) returns; ok says whether run.NewRemote
\* could build the primitive from the credentials
NewRemoteLogRunCall(config, ok) ==
    IF ~ok THEN [r |-> << >>, err |-> <<ConstructErr>>]
    ELSE [r |-> <<RemoteLogRun(config)>>, err |-> << >>]

NewRemoteLogRun(config, ok) ==
    LET c == NewRemoteLogRunCall(config, ok) IN
    /\ ~Constructed("r")
    /\ runners' = [runners EXCEPT !["r"] = c.r]
    /\ last' = [NoCall EXCEPT !.op = "NewRemoteLogRun", !.r = "r", !.in = [config |-> config],
                              !.ret = <<[r   |-> IF c.r = << >> THEN << >> ELSE <<"r">>,
                                         err |-> c.err]>>]
    /\ UNCHANGED <<events, ncalls, memo, memoOn, inflight>>

\* SetLogFunc storing the callback in every LogRun there is
SetLogFunc_AllRunners(r, f) ==
    /\ Constructed(r)
    /\ runners' = [id \in RunnerIds |->
                      IF Constructed(id) THEN <<[runners[id][1] EXCEPT !.logFunc = f]>>
                      ELSE runners[id]]
    /\ UNCHANGED <<last, events, ncalls, memo, memoOn, inflight>>

SetLogFunc(r, f) ==
    /\ Constructed(r)
    /\ runners' = [runners EXCEPT ![r] = <<[runners[r][1] EXCEPT !.logFunc = f]>>]
    /\ UNCHANGED <<last, events, ncalls, memo, memoOn, inflight>>

\* SetDryrun putting a new LogRun in the runner's place
SetDryrun_Rebuilds(r, dryrun) ==
    /\ Constructed(r)
    /\ runners' = [runners EXCEPT ![r] =
                      <<LocalLogRun([ZeroLocalConfig EXCEPT !.Dryrun = dryrun])>>]
    /\ UNCHANGED <<last, events, ncalls, memo, memoOn, inflight>>

SetDryrun(r, dryrun) ==
    /\ Constructed(r)
    /\ runners' = [runners EXCEPT ![r] = <<[runners[r][1] EXCEPT !.Dryrun = dryrun]>>]
    /\ UNCHANGED <<last, events, ncalls, memo, memoOn, inflight>>

Run(r, cmd, args) ==
    /\ Constructed(r) /\ ncalls < MaxCalls
    /\ \E p \in PrimOutcomes(cmd, args) :
          Record("Run", r, [cmd |-> cmd, args |-> args], RunCall(runners[r][1], cmd, args, p))
    /\ UNCHANGED <<runners, memo, memoOn, inflight>>

Shell(r, cmd) ==
    /\ Constructed(r) /\ ncalls < MaxCalls
    /\ \E p \in PrimOutcomes(cmd, << >>) :
          Record("Shell", r, [cmd |-> cmd], ShellCall(runners[r][1], cmd, p))
    /\ UNCHANGED <<runners, memo, memoOn, inflight>>

FileExists(r, filename) ==
    /\ Constructed(r) /\ ncalls < MaxCalls
    /\ \E p \in PrimOutcomes(FileExistsCmd, <<filename>>) :
          Record("FileExists", r, [filename |-> filename], FileExistsCall(runners[r][1], filename, p))
    /\ UNCHANGED <<runners, memo, memoOn, inflight>>

DirExists(r, dirname) ==
    /\ Constructed(r) /\ ncalls < MaxCalls
    /\ \E p \in PrimOutcomes(DirExistsCmd, <<dirname>>) :
          Record("DirExists", r, [dirname |-> dirname], DirExistsCall(runners[r][1], dirname, p))
    /\ UNCHANGED <<runners, memo, memoOn, inflight>>

Glob(r, pattern) ==
    /\ Constructed(r) /\ ncalls < MaxCalls
    /\ \E p \in PrimOutcomes(GlobCmdLine(pattern), << >>) :
          Record("Glob", r, [pattern |-> pattern], GlobCall(runners[r][1], pattern, p))
    /\ UNCHANGED <<runners, memo, memoOn, inflight>>

Rsync(r, src, dest) ==
    /\ Constructed(r) /\ ncalls < MaxCalls
    /\ \E p \in PrimOutcomes(RsyncCmd, <<src, dest>>) :
          Record("Rsync", r, [src |-> src, dest |-> dest], RsyncCall(runners[r][1], src, dest, p))
    /\ UNCHANGED <<runners, memo, memoOn, inflight>>

\* a FormatRun / FormatShell call: it returns the string and does nothing else
Formatted(op, r, in, str) ==
    /\ last' = [op |-> op, r |-> r, in |-> in, dry |-> runners[r][1].Dryrun,
                logFunc |-> runners[r][1].logFunc, steps |-> << >>, ret |-> <<[str |-> str]>>]
    /\ memo' = IF memoOn /\ memo = << >>
               THEN <<[op |-> op, r |-> r, in |-> in, dry |-> runners[r][1].Dryrun,
                       str |-> str]>>
               ELSE memo
    /\ UNCHANGED <<runners, events, ncalls, memoOn, inflight>>

FormatRunOp(r, cmd, args) ==
    /\ Constructed(r)
    /\ Formatted("FormatRun", r, [cmd |-> cmd, args |-> args],
                 FormatRun(runners[r][1], cmd, args))

FormatShellOp(r, cmd) ==
    /\ Constructed(r)
    /\ Formatted("FormatShell", r, [cmd |-> cmd], FormatShell(runners[r][1], cmd))

\* the operations a caller can issue on the runners in ids
NextOn(ids) ==
    \/ \E config \in LocalConfigs : NewLocalLogRun(config)
    \/ \E config \in RemoteConfigs, ok \in BOOLEAN : NewRemoteLogRun(config, ok)
    \/ \E r \in ids, f \in LogFuncs : SetLogFunc(r, f)
    \/ \E r \in ids, dryrun \in BOOLEAN : SetDryrun(r, dryrun)
    \/ \E r \in ids, cmd \in Cmds, args \in ArgLists : Run(r, cmd, args)
    \/ \E r \in ids, cmd \in ShellLines : Shell(r, cmd)
    \/ \E r \in ids, cmd \in Cmds, args \in ArgLists : FormatRunOp(r, cmd, args)
    \/ \E r \in ids, cmd \in ShellLines : FormatShellOp(r, cmd)
    \/ \E r \in ids, filename \in Paths : FileExists(r, filename)
    \/ \E r \in ids, dirname \in Paths : DirExists(r, dirname)
    \/ \E r \in ids, pattern \in Patterns : Glob(r, pattern)
    \/ \E r \in ids, src \in Sources, dest \in Dests : Rsync(r, src, dest)

\* a caller working with the runner it constructed
Next == NextOn({"r"})

Spec == Init /\ [][Next]_vars

\* a caller that formats, runs and reconfigures, the first Format call being
\* remembered
NextFormat ==
    \/ \E config \in LocalConfigs : NewLocalLogRun(config)
    \/ \E config \in RemoteConfigs, ok \in BOOLEAN : NewRemoteLogRun(config, ok)
    \/ \E f \in LogFuncs : SetLogFunc("r", f)
    \/ \E dryrun \in BOOLEAN : SetDryrun("r", dryrun)
    \/ \E cmd \in Cmds, args \in ArgLists : Run("r", cmd, args)
    \/ \E cmd \in ShellLines : Shell("r", cmd)
    \/ \E cmd \in Cmds, args \in ArgLists : FormatRunOp("r", cmd, args)
    \/ \E cmd \in ShellLines : FormatShellOp("r", cmd)

SpecFormat == InitFormat /\ [][NextFormat]_vars

\* the package-level functions: each one calls the same method of std
NextStd ==
    \/ \E f \in LogFuncs : SetLogFunc("std", f)
    \/ \E dryrun \in BOOLEAN : SetDryrun("std", dryrun)
    \/ \E cmd \in Cmds, args \in ArgLists : Run("std", cmd, args)
    \/ \E cmd \in Cmds, args \in ArgLists : FormatRunOp("std", cmd, args)
    \/ \E cmd \in ShellLines : Shell("std", cmd)
    \/ \E cmd \in ShellLines : FormatShellOp("std", cmd)
    \/ \E filename \in Paths : FileExists("std", filename)
    \/ \E dirname \in Paths : DirExists("std", dirname)
    \/ \E pattern \in Patterns : Glob("std", pattern)
    \/ \E src \in Sources, dest \in Dests : Rsync("std", src, dest)

SpecStd == Init /\ [][NextStd]_vars

\* local configurations, with and without a shell of the caller's choice
LocalShellConfigs ==
    [LogFunc : {NilFunc, UserLogFunc}, ShellExecutable : {<< >>, S("/bin/bash")},
     Dryrun : BOOLEAN]

\* a caller of a local runner who formats and runs commands
NextLocal ==
    \/ \E config \in LocalShellConfigs : NewLocalLogRun(config)
    \/ \E cmd \in Cmds, args \in ArgLists : FormatRunOp("r", cmd, args)
    \/ \E cmd \in ShellLines : FormatShellOp("r", cmd)
    \/ \E cmd \in Cmds, args \in ArgLists : Run("r", cmd, args)
    \/ \E cmd \in ShellLines : Shell("r", cmd)

SpecLocal == Init /\ [][NextLocal]_vars

\* two LogRun values side by side: the standard runner and one the caller
\* constructs from the zero config, every operation being issued on either
NextTwo ==
    \/ NewLocalLogRun(ZeroLocalConfig)
    \/ \E r \in RunnerIds, f \in LogFuncs : SetLogFunc(r, f)
    \/ \E r \in RunnerIds, dryrun \in BOOLEAN : SetDryrun(r, dryrun)
    \/ \E r \in RunnerIds : Run(r, S("/bin/true"), << >>)
    \/ \E r \in RunnerIds : Shell(r, S("/bin/false"))
    \/ \E r \in RunnerIds : FormatRunOp(r, S("/bin/true"), << >>)
    \/ \E r \in RunnerIds : FormatShellOp(r, S("/bin/false"))
    \/ \E r \in RunnerIds : FileExists(r, S("/etc"))
    \/ \E r \in RunnerIds : DirExists(r, S("/etc"))
    \/ \E r \in RunnerIds : Glob(r, S("xy*zzy"))
    \/ \E r \in RunnerIds : Rsync(r, S("/bin/true"), S("/tmp/dest/"))

SpecTwo == Init /\ [][NextTwo]_vars

(***************************************************************************)
(* Two callers on the standard runner, without synchronisation: one calls  *)
(* SetDryrun, the other Run or Shell.  The call takes two steps: it        *)
(* formats and logs the command, and it reads the flag and returns or      *)
(* executes; the other caller's store falls before, between or after them, *)
(* and the read gives the value stored last.                               *)
(***************************************************************************)
\* msg := r.Runner.FormatRun / FormatShell; r.logFunc(msg)
Begin(op, r, in, msg) ==
    /\ runners[r][1].logFunc # NilFunc
    /\ IF inflight = << >> THEN TRUE ELSE inflight[1].pc = "returned"
    /\ inflight' = <<[pc |-> "logged", op |-> op, r |-> r, in |-> in,
                      dry0 |-> runners[r][1].Dryrun,
                      logged |-> <<LogStep(runners[r][1].logFunc, msg)>>]>>
    /\ UNCHANGED <<runners, last, events, ncalls, memo, memoOn>>

RunBegin(r, cmd, args) ==
    /\ Constructed(r) /\ ncalls < MaxCalls
    /\ Begin("Run", r, [cmd |-> cmd, args |-> args],
             RunnerFormatRun(runners[r][1].Runner, cmd, args))

ShellBegin(r, cmd) ==
    /\ Constructed(r) /\ ncalls < MaxCalls
    /\ Begin("Shell", r, [cmd |-> cmd], RunnerFormatShell(runners[r][1].Runner, cmd))

\* the flag as the call in flight finds it, reading it before it logs
FlagRead_BeforeLogging(call) == call.dry0

\* if r.Dryrun: the flag as the call in flight finds it
FlagRead(call) == runners[call.r][1].Dryrun

\* if r.Dryrun { return "", "", ExitOK }; return r.run(...) / r.shell(...)
Finish ==
    /\ inflight # << >> /\ inflight[1].pc = "logged"
    /\ LET call == inflight[1]
           rr   == [runners[call.r][1] EXCEPT !.Dryrun = FlagRead(call)]
           args == IF call.op = "Run" THEN call.in.args ELSE << >>
       IN \E p \in PrimOutcomes(call.in.cmd, args) :
             Record(call.op, call.r, call.in,
                    IF call.op = "Run" THEN RunCall(rr, call.in.cmd, call.in.args, p)
                    ELSE ShellCall(rr, call.in.cmd, p))
    /\ inflight' = <<[inflight[1] EXCEPT !.pc = "returned"]>>
    /\ UNCHANGED <<runners, memo, memoOn>>

NextRace ==
    \/ \E dryrun \in BOOLEAN : SetDryrun("std", dryrun)
    \/ \E cmd \in Cmds, args \in ArgLists : RunBegin("std", cmd, args)
    \/ \E cmd \in ShellLines : ShellBegin("std", cmd)
    \/ Finish

SpecRace == Init /\ [][NextRace]_vars

(***************************************************************************)
(* Reading a call record                                                   *)
(***************************************************************************)
IsLog(s) == s.kind = "log"
IsExec(s) == s.kind = "exec"
Logged(c) == SelectSeq(c.steps, IsLog)
Execs(c) == SelectSeq(c.steps, IsExec)

RunOps == {"Run", "Shell"}
FormatOps == {"FormatRun", "FormatShell"}
CallOps == {"Run", "Shell", "FileExists", "DirExists", "Glob", "Rsync"}

\* the LogRun value the last call was made on
LastRunner == runners[last.r][1]

\* the string FormatRun / FormatShell gives for the inputs of the last call
LastFormat ==
    IF last.op = "Run" THEN FormatRun(LastRunner, last.in.cmd, last.in.args)
    ELSE FormatShell(LastRunner, last.in.cmd)

\* the last call was a Run or Shell on a runner whose callback can be called
LastRunShell == last.op \in RunOps /\ last.logFunc # NilFunc

\* ... and it went on to the primitive, which handed back LastPrim
LastExecuted == LastRunShell /\ Execs(last) # << >>
LastPrim == Execs(last)[1].prim

(***************************************************************************)
(* Properties                                                              *)
(***************************************************************************)

\* C1: with dry-run enabled, a Run or Shell call returns ("", "", ExitOK),
\* never invokes the execution primitive, and has passed the formatted
\* command to the logging callback.
C1_DryrunReturnsOK ==
    (LastRunShell /\ last.dry) =>
        /\ last.ret = <<[stdout |-> << >>, stderr |-> << >>, code |-> ExitOK]>>
        /\ Execs(last) = << >>
        /\ Logged(last) = <<LogStep(last.logFunc, LastFormat)>>

C1_Witness ==
    /\ LastRunShell /\ last.dry
    /\ last.op = "Shell" /\ last.logFunc = UserLogFunc
    /\ last.ret # << >> /\ Len(Logged(last)) = 1

\* C2: every Run or Shell call invokes the logging callback exactly once,
\* with the formatted command as its only argument, with dry-run on or off
\* and whatever the execution then does.
C2_LoggedExactlyOnce ==
    LastRunShell => Logged(last) = <<LogStep(last.logFunc, LastFormat)>>

C2_Witness ==
    /\ LastExecuted /\ ~last.dry
    /\ LastPrim.err # << >>
    /\ Len(Logged(last)) = 1

\* C3: within one call the callback is invoked immediately before the
\* primitive, and the steps of calls issued one after another appear in
\* issue order.
C3_LogThenExecInOrder ==
    /\ \A i \in 1..Len(events), j \in 1..Len(events) :
          i < j => events[i].call <= events[j].call
    /\ \A j \in 1..Len(events) :
          events[j].kind = "exec" =>
              /\ j > 1
              /\ events[j - 1] = [call |-> events[j].call, kind |-> "log"]
    /\ \A j \in 1..Len(last.steps) :
          last.steps[j].kind = "exec" => (j > 1 /\ last.steps[j - 1].kind = "log")

C3_Witness ==
    /\ Len(events) = 4
    /\ events[1] = [call |-> 1, kind |-> "log"]
    /\ events[2] = [call |-> 1, kind |-> "exec"]
    /\ events[3] = [call |-> 2, kind |-> "log"]
    /\ events[4] = [call |-> 2, kind |-> "exec"]
    /\ last.op = "Glob"

\* C4: the string Run passes to the callback is FormatRun(cmd, args...) and
\* the string Shell passes is FormatShell(cmdline), on a local and on a
\* remote runner.
C4_LogsFormatted ==
    /\ (last.op = "Run" =>
          \A i \in 1..Len(Logged(last)) :
              Logged(last)[i].msg = FormatRun(LastRunner, last.in.cmd, last.in.args))
    /\ (last.op = "Shell" =>
          \A i \in 1..Len(Logged(last)) :
              Logged(last)[i].msg = FormatShell(LastRunner, last.in.cmd))

C4_Witness ==
    /\ last.op = "Run" /\ LastRunner.Runner.kind = "remote"
    /\ Len(last.in.args) = 2
    /\ Len(Logged(last)) = 1
    /\ Logged(last)[1].msg = FormatRun(LastRunner, last.in.cmd, last.in.args)

\* C5: with dry-run off, when the primitive signals an ExecutionError, Run and
\* Shell return empty stdout, the error's description as stderr and
\* ExitErrorExecute, whatever else the primitive handed back.
C5_ExecutionErrorMapped ==
    (LastExecuted /\ LastPrim.err # << >>) =>
        last.ret = <<[stdout |-> << >>, stderr |-> LastPrim.err[1],
                      code |-> ExitErrorExecute]>>

C5_Witness ==
    /\ LastExecuted /\ ~last.dry
    /\ LastPrim.err # << >>
    /\ LastPrim.stdout # << >> /\ LastPrim.code # ExitErrorExecute
    /\ last.ret # << >> /\ last.ret[1].code = ExitErrorExecute

\* C6: with dry-run off, when the primitive reports no error, Run and Shell
\* return exactly the stdout, stderr and exit code it produced, non-zero
\* codes included.
C6_ResultPassedThrough ==
    (LastExecuted /\ LastPrim.err = << >>) =>
        last.ret = <<[stdout |-> LastPrim.stdout, stderr |-> LastPrim.stderr,
                      code |-> LastPrim.code]>>

C6_Witness ==
    /\ LastExecuted /\ LastPrim.err = << >>
    /\ LastPrim.code = 2 /\ LastPrim.stdout # << >> /\ LastPrim.stderr # << >>
    /\ last.ret # << >> /\ last.ret[1].code = 2

\* C7: whenever Run or Shell (dry-run off) returns ExitErrorExecute, the
\* primitive signalled an ExecutionError for that call.
C7_ExitErrorExecuteMeansError ==
    (LastExecuted /\ last.ret # << >> /\ last.ret[1].code = ExitErrorExecute) =>
        LastPrim.err # << >>

\* the first Format call is the same request as the last call
SameAsMemo(c) ==
    /\ memo # << >>
    /\ memo[1].op = c.op /\ memo[1].r = c.r /\ memo[1].in = c.in

\* C8: a FormatRun or FormatShell call invokes neither the callback nor the
\* primitive, leaves the flag and the callback alone, and returns the string
\* an earlier call with the same inputs returned, whatever Run, Shell,
\* SetDryrun and SetLogFunc calls came in between.
C8_FormatIsPure ==
    [][(last' # last /\ last'.op \in FormatOps) =>
          /\ runners' = runners
          /\ events' = events
          /\ last'.steps = << >>
          /\ Len(last'.ret) = 1
          /\ (SameAsMemo(last') => last'.ret[1].str = memo[1].str)]_vars

C8_Witness ==
    /\ last.op = "FormatRun" /\ SameAsMemo(last)
    /\ last.dry # memo[1].dry
    /\ last.logFunc = NilFunc
    /\ Len(events) > 0
    /\ last.ret = <<[str |-> memo[1].str]>>

C10_DryrunNeverExecutes ==
    (last.op \in CallOps /\ last.dry) => Execs(last) = << >>

\* the path a FileExists or DirExists call was asked about
LastPath == IF last.op = "FileExists" THEN last.in.filename ELSE last.in.dirname

\* the last call was a FileExists or DirExists on a callable callback
LastExists == last.op \in {"FileExists", "DirExists"} /\ last.logFunc # NilFunc

\* ... whose status command ran and exited with a code of its own
LastStatRan == LastExists /\ Execs(last) # << >> /\ LastPrim.err = << >>

\* the status command exited 0 and printed "<path>:<type>" for the path asked
LastStatPrinted(type) ==
    /\ LastStatRan /\ LastPrim.code = 0
    /\ LastPrim.stdout = StatLine(LastPath, type)

\* C11: with dry-run enabled, FileExists and DirExists log the formatted
\* status command once, do not invoke the primitive and return (true, nil).
C11_DryrunExistsIsTrue ==
    (LastExists /\ last.dry) =>
        /\ Logged(last) =
              <<LogStep(last.logFunc,
                        FormatRun(LastRunner, FileExistsCmd,
                                  Append(FileExistsCmdOptions, LastPath)))>>
        /\ Execs(last) = << >>
        /\ last.ret = <<[ok |-> TRUE, err |-> << >>]>>

C11_Witness ==
    /\ LastExists /\ last.dry /\ last.op = "DirExists"
    /\ Len(Logged(last)) = 1 /\ Execs(last) = << >>
    /\ last.ret # << >> /\ last.ret[1].ok

\* C12: for every path, paths containing ':' included, when the status
\* command exits 0 and prints "<path>:<type>", FileExists returns (true, nil)
\* for the types "regular file" and "regular empty file" and (false, error)
\* for any other type.
C12_FileExistsByType ==
    \A t \in FileTypes :
        (last.op = "FileExists" /\ LastStatPrinted(t)) =>
            IF t \in {"regular file", "regular empty file"}
            THEN last.ret = <<[ok |-> TRUE, err |-> << >>]>>
            ELSE /\ last.ret # << >>
                 /\ ~last.ret[1].ok /\ last.ret[1].err # << >>

\* C13: when the status command of FileExists exits non-zero and its stderr
\* contains "No such file or directory", FileExists returns (false, nil).
C13_MissingFileIsNotAnError ==
    (/\ last.op = "FileExists" /\ LastStatRan
     /\ LastPrim.code # 0 /\ Contains(LastPrim.stderr, NoSuchFile)) =>
        last.ret = <<[ok |-> FALSE, err |-> << >>]>>

C13_Witness ==
    /\ last.op = "FileExists" /\ LastStatRan
    /\ LastPrim.code # 0 /\ Contains(LastPrim.stderr, NoSuchFile)
    /\ last.ret # << >> /\ ~last.ret[1].ok /\ last.ret[1].err = << >>

\* C14: DirExists has the outcomes of FileExists with "directory" as the only
\* accepted type: exit 0 with type "directory" gives (true, nil), exit 0 with
\* another type (false, error), a non-zero exit with "No such file or
\* directory" in stderr (false, nil), any other non-zero exit (false, error).
C14_DirExistsOutcomes ==
    /\ \A t \in FileTypes :
          (last.op = "DirExists" /\ LastStatPrinted(t)) =>
              IF t = "directory"
              THEN last.ret = <<[ok |-> TRUE, err |-> << >>]>>
              ELSE /\ last.ret # << >>
                   /\ ~last.ret[1].ok /\ last.ret[1].err # << >>
    /\ (last.op = "DirExists" /\ LastStatRan /\ LastPrim.code # 0) =>
          /\ last.ret # << >>
          /\ ~last.ret[1].ok
          /\ (last.ret[1].err = << >>) <=> Contains(LastPrim.stderr, NoSuchFile)

\* the exit code and the stderr text Glob and Rsync see for the last call:
\* the command's own, or ExitErrorExecute and the error's description
LastCode == IF LastPrim.err # << >> THEN ExitErrorExecute ELSE LastPrim.code
LastStderr == IF LastPrim.err # << >> THEN LastPrim.err[1] ELSE LastPrim.stderr

\* C15: whenever the listing command of Glob ends with a non-zero exit code
\* (its own, or ExitErrorExecute for an ExecutionError), Glob returns an empty
\* list and an error whose message contains the stderr text; it never returns
\* paths together with an error.
C15_GlobFailureIsEmpty ==
    (last.op = "Glob" /\ last.logFunc # NilFunc) =>
        /\ last.ret # << >>
        /\ (LastCode # 0 =>
              /\ last.ret[1].paths = << >>
              /\ last.ret[1].err # << >>
              /\ Contains(last.ret[1].err[1], LastStderr))
        /\ (last.ret[1].err # << >> => last.ret[1].paths = << >>)

C15_Witness ==
    /\ last.op = "Glob" /\ last.logFunc # NilFunc
    /\ LastPrim.err # << >> /\ LastPrim.stdout # << >>
    /\ last.ret # << >> /\ last.ret[1].paths = << >>
    /\ last.ret[1].err # << >> /\ Contains(last.ret[1].err[1], SshErrText)

\* the rsync command line of the last Rsync call
LastRsyncArgs == RsyncCmdOptions \o <<last.in.src, last.in.dest>>

\* C16: with dry-run enabled, Rsync logs the formatted rsync command once,
\* does not invoke the primitive and returns nil.
C16_RsyncHonorsDryrun ==
    (last.op = "Rsync" /\ last.dry /\ last.logFunc # NilFunc) =>
        /\ Logged(last) =
              <<LogStep(last.logFunc, FormatRun(LastRunner, RsyncCmd, LastRsyncArgs))>>
        /\ Execs(last) = << >>
        /\ last.ret = <<[err |-> << >>]>>

C16_Witness ==
    /\ last.op = "Rsync" /\ last.dry /\ last.logFunc = UserLogFunc
    /\ Len(Logged(last)) = 1 /\ Execs(last) = << >>
    /\ last.ret = <<[err |-> << >>]>>

\* C17: with dry-run off, Rsync returns nil exactly when the rsync command
\* ran and exited 0; a non-zero exit or an ExecutionError gives an error whose
\* message contains the stderr text (the error's description).
C17_RsyncErrorIffFailed ==
    (last.op = "Rsync" /\ ~last.dry /\ last.logFunc # NilFunc) =>
        /\ Len(Execs(last)) = 1
        /\ last.ret # << >>
        /\ (last.ret[1].err = << >>) <=> (LastPrim.err = << >> /\ LastPrim.code = 0)
        /\ (last.ret[1].err # << >> => Contains(last.ret[1].err[1], LastStderr))

C17_Witness ==
    /\ last.op = "Rsync" /\ ~last.dry /\ last.logFunc # NilFunc
    /\ LastPrim.err = << >> /\ LastPrim.code = 2
    /\ last.ret # << >> /\ last.ret[1].err # << >>
    /\ Contains(last.ret[1].err[1], LastPrim.stderr)

\* the LogRun value the last call found: the primitive never changes after
\* construction, the flag and the callback are the ones the call read
LastRunnerAtCall ==
    [Runner |-> LastRunner.Runner, logFunc |-> last.logFunc, Dryrun |-> last.dry]

\* the LogRun values the constructors build from a config without a LogFunc
BuiltWithoutLogFunc ==
    {LocalLogRun(config) : config \in {c \in LocalConfigs : c.LogFunc = NilFunc}}
        \cup {RemoteLogRun(config) : config \in {c \in RemoteConfigs : c.LogFunc = NilFunc}}

\* the step in which a constructor hands the caller its LogRun
Constructs == ~Constructed("r") /\ Constructed("r")'

\* C18: the LogRun a constructor builds has the config's LogFunc when one is
\* supplied and the discard callback when none is, and its dry-run flag is the
\* config's Dryrun; a Run or Shell on a LogRun built without a LogFunc
\* executes the command once, returns its result, and its log step writes
\* nothing.
C18_ConstructorDefaults ==
    /\ [][Constructs =>
            LET config == last'.in.config
                rr     == runners'["r"][1]
            IN
            /\ last'.op \in {"NewLocalLogRun", "NewRemoteLogRun"}
            /\ rr.logFunc = IF config.LogFunc = NilFunc THEN DiscardLogFunc
                            ELSE config.LogFunc
            /\ rr.Dryrun = config.Dryrun]_vars
    /\ []((last.op \in RunOps /\ LastRunnerAtCall \in BuiltWithoutLogFunc /\ ~last.dry) =>
            /\ Len(Execs(last)) = 1
            /\ last.ret = <<IF last.op = "Run" THEN run(LastPrim) ELSE shell(LastPrim)>>
            /\ \A i \in 1..Len(Logged(last)) :
                    Emitted(Logged(last)[i].f, Logged(last)[i].msg) = << >>)

C18_Witness ==
    /\ last.op = "NewRemoteLogRun"
    /\ last.in.config.LogFunc = NilFunc /\ last.in.config.Dryrun
    /\ Constructed("r")
    /\ runners["r"][1].logFunc = DiscardLogFunc /\ runners["r"][1].Dryrun

\* C19: a NewRemoteLogRun call logs and attempts no command; when the
\* primitive cannot be built it returns no LogRun and the error, and the
\* caller has no runner; when it can, it returns a remote LogRun and nil.
C19_RemoteConstruction ==
    [][(last' # last /\ last'.op = "NewRemoteLogRun") =>
          /\ events' = events /\ ncalls' = ncalls
          /\ last'.steps = << >>
          /\ last'.ret # << >>
          /\ IF last'.ret[1].err # << >>
             THEN /\ last'.ret[1].r = << >>
                  /\ runners' = runners
                  /\ ~Constructed("r")'
             ELSE /\ last'.ret[1].r = <<"r">>
                  /\ Constructed("r")'
                  /\ runners'["r"][1].Runner.kind = "remote"]_vars

C19_Witness ==
    /\ last.op = "NewRemoteLogRun"
    /\ last.ret # << >> /\ last.ret[1].err = <<ConstructErr>> /\ last.ret[1].r = << >>
    /\ ~Constructed("r")
    /\ events = << >>

\* the standard runner as the package creates it
StdAtStart ==
    runners["std"] = <<[Runner |-> NewLocal(<< >>), logFunc |-> DiscardLogFunc,
                        Dryrun |-> FALSE]>>

\* C20: the standard runner starts as a local LogRun with dry-run off and the
\* discard callback; every package-level call is a call on it: a setter
\* changes its field and nothing else, and every later call reads the flag and
\* the callback the standard runner has at that moment.
C20_SharedStandardRunner ==
    /\ StdAtStart
    /\ [][/\ runners'["r"] = runners["r"]
          /\ Constructed("std")'
          /\ runners'["std"][1].Runner = runners["std"][1].Runner
          /\ (runners' # runners =>
                /\ last' = last /\ events' = events
                /\ \/ runners'["std"][1].logFunc = runners["std"][1].logFunc
                   \/ runners'["std"][1].Dryrun = runners["std"][1].Dryrun)
          /\ (ncalls' # ncalls =>
                LET std == runners["std"][1] IN
                /\ last'.r = "std"
                /\ runners' = runners
                /\ \A i \in 1..Len(Logged(last')) : Logged(last')[i].f = std.logFunc
                /\ (std.logFunc # NilFunc /\ last'.op \in RunOps \cup {"FileExists", "DirExists", "Rsync"}) =>
                       ((Execs(last') = << >>) <=> std.Dryrun))
          /\ (last' # last /\ last'.op \in FormatOps =>
                /\ last'.r = "std"
                /\ runners' = runners
                /\ last'.ret[1].str =
                      IF last'.op = "FormatRun"
                      THEN FormatRun(runners["std"][1], last'.in.cmd, last'.in.args)
                      ELSE FormatShell(runners["std"][1], last'.in.cmd))]_vars

C20_Witness ==
    /\ ncalls = 2
    /\ last.op = "Run" /\ last.r = "std"
    /\ last.dry /\ last.logFunc = UserLogFunc
    /\ Execs(last) = << >> /\ Len(Logged(last)) = 1
    /\ \E i \in 1..Len(events) : events[i].call = 1 /\ events[i].kind = "exec"

RECURSIVE SpaceBefore(_)
\* every argument with one space in front of it, one after the other
SpaceBefore(args) ==
    IF Len(args) = 0 THEN << >>
    ELSE <<SP>> \o Head(args) \o SpaceBefore(Tail(args))

\* C21: a local LogRun has the shell of its config, /bin/sh when the config
\* names none; its FormatRun is the command and then each argument after one
\* space, nothing else added (an argument with a space in it stays as it
\* is), and its FormatShell is the shell path, " -c " and the line between
\* double quotes.
C21_LocalFormats ==
    /\ [][(Constructs /\ last'.op = "NewLocalLogRun") =>
            runners'["r"][1].Runner.shell =
                IF last'.in.config.ShellExecutable = << >> THEN <<"/bin/sh">>
                ELSE last'.in.config.ShellExecutable]_vars
    /\ []((last.op = "FormatRun" /\ LastRunner.Runner.kind = "local") =>
            last.ret[1].str = last.in.cmd \o SpaceBefore(last.in.args))
    /\ []((last.op = "FormatShell" /\ LastRunner.Runner.kind = "local") =>
            last.ret[1].str =
                LastRunner.Runner.shell \o <<" ", "-c", " ", "\"">> \o last.in.cmd \o <<"\"">>)

C21_Witness ==
    /\ last.op = "FormatRun" /\ LastRunner.Runner.kind = "local"
    /\ last.in.args = <<<<"a", " ", "b">>, <<"-c">>>>
    /\ last.ret[1].str = <<"/bin/true", " ", "a", " ", "b", " ", "-c">>

\* C22: when the status command of FileExists ran and exited non-zero with a
\* stderr that does not contain "No such file or directory", FileExists
\* returns false and the error "could not access <path>: <stdout>", stdout
\* being what the command printed.
C22_OtherFailureWrapsStdout ==
    (last.op = "FileExists" /\ LastStatRan /\ LastPrim.code # 0
        /\ ~Contains(LastPrim.stderr, NoSuchFile)) =>
        last.ret = <<[ok  |-> FALSE,
                      err |-> <<<<"could not access ">> \o last.in.filename \o <<": ">>
                                    \o LastPrim.stdout>>]>>

C22_Witness ==
    /\ last.op = "FileExists" /\ LastStatRan
    /\ LastPrim.code = 1 /\ LastPrim.stdout = <<"denied">>
    /\ LastPrim.stderr = <<"stat: permission denied">>
    /\ last.ret # << >> /\ ~last.ret[1].ok
    /\ last.ret[1].err = <<<<"could not access ">> \o last.in.filename \o <<": ", "denied">>>>

\* the listing command of the last Glob call ran and exited 0
LastListed ==
    /\ last.op = "Glob" /\ last.logFunc # NilFunc
    /\ LastPrim.err = << >> /\ LastPrim.code = 0

NotEmpty(s) == s # << >>

\* the lines of text, each without its surrounding whitespace
TrimmedLines(text) ==
    LET lines == Split(text, NL) IN [i \in 1..Len(lines) |-> TrimSpace(lines[i])]

\* C23: when the listing command exits 0, Glob returns a nil error and the
\* lines of its stdout in their order, each trimmed of surrounding whitespace,
\* the empty ones left out; no element is empty or starts or ends with
\* whitespace.
C23_GlobReturnsTrimmedLines ==
    LastListed =>
        /\ last.ret # << >>
        /\ last.ret[1].err = << >>
        /\ last.ret[1].paths = SelectSeq(TrimmedLines(LastPrim.stdout), NotEmpty)
        /\ \A i \in 1..Len(last.ret[1].paths) :
              LET e == last.ret[1].paths[i] IN
              /\ e # << >>
              /\ ~IsSpace(e[1]) /\ ~IsSpace(e[Len(e)])

C23_Witness ==
    /\ LastListed
    /\ LastPrim.stdout = <<" ", "/bin/true", "\t", "\n", "\n">>
    /\ last.ret = <<[paths |-> <<<<"/bin/true">>>>, err |-> << >>]>>

\* the command and the arguments the last derived call is to issue, and
\* whether it hands them to the shell
LastDerivedFn == IF last.op = "Glob" THEN "Shell" ELSE "Run"
LastDerivedCmd ==
    CASE last.op = "FileExists" -> FileExistsCmd
      [] last.op = "DirExists"  -> DirExistsCmd
      [] last.op = "Rsync"      -> RsyncCmd
      [] last.op = "Glob"       -> GlobCmd \o SpaceBefore(GlobCmdOptions \o <<last.in.pattern>>)
LastDerivedArgs ==
    CASE last.op = "FileExists" -> FileExistsCmdOptions \o <<last.in.filename>>
      [] last.op = "DirExists"  -> DirExistsCmdOptions \o <<last.in.dirname>>
      [] last.op = "Rsync"      -> RsyncCmdOptions \o <<last.in.src, last.in.dest>>
      [] last.op = "Glob"       -> << >>

DerivedOps == {"FileExists", "DirExists", "Glob", "Rsync"}

\* C24: a derived operation logs, and issues when it executes, its configured
\* command, then its configured options, then the caller's arguments:
\* stat options path, rsync options source destination, and for Glob the one
\* shell line "ls options pattern" joined by spaces.
C24_CommandOptionsArguments ==
    (last.op \in DerivedOps /\ last.logFunc # NilFunc) =>
        /\ Len(Logged(last)) = 1
        /\ Logged(last)[1].msg =
              IF last.op = "Glob" THEN RunnerFormatShell(LastRunner.Runner, LastDerivedCmd)
              ELSE RunnerFormatRun(LastRunner.Runner, LastDerivedCmd, LastDerivedArgs)
        /\ \A i \in 1..Len(Execs(last)) :
              /\ Execs(last)[i].fn = LastDerivedFn
              /\ Execs(last)[i].cmd = LastDerivedCmd
              /\ Execs(last)[i].args = LastDerivedArgs

C24_Witness ==
    /\ last.op = "Rsync" /\ last.logFunc # NilFunc /\ ~last.dry
    /\ last.in.src = <<"host:/etc/cron.daily/">>
    /\ Len(Execs(last)) = 1
    /\ Execs(last)[1].cmd = <<"/usr/bin/rsync">>
    /\ Len(Execs(last)[1].args) = 7
    /\ Execs(last)[1].args[1] = <<"--rsh">>
    /\ Execs(last)[1].args[6] = <<"host:/etc/cron.daily/">>
    /\ Execs(last)[1].args[7] = <<"/tmp/dest/">>

\* the runners whose LogRun value step changes
Changed == {id \in RunnerIds : runners'[id] # runners[id]}

\* C25: a LogRun, once constructed, keeps its primitive; Run, Shell,
\* FormatRun, FormatShell, FileExists, DirExists, Glob and Rsync leave every
\* LogRun as it is; a setter changes one LogRun only, the one it is called
\* on, and of its flag and callback only one.
C25_FrameEffects ==
    [][/\ \A id \in RunnerIds :
             Constructed(id) =>
                /\ Constructed(id)'
                /\ runners'[id][1].Runner = runners[id][1].Runner
       /\ (ncalls' # ncalls => runners' = runners)
       /\ ((last' # last /\ last'.op \in FormatOps) => runners' = runners)
       /\ ((Changed # {} /\ ~Constructs) =>
             /\ Cardinality(Changed) = 1
             /\ UNCHANGED <<last, events, ncalls>>
             /\ \A id \in Changed :
                   \/ runners'[id][1].logFunc = runners[id][1].logFunc
                   \/ runners'[id][1].Dryrun = runners[id][1].Dryrun)]_vars

C25_Witness ==
    /\ Constructed("r")
    /\ runners["r"][1].Dryrun /\ runners["r"][1].logFunc = UserLogFunc
    /\ StdAtStart
    /\ last.op = "Rsync" /\ last.r = "std" /\ ~last.dry
    /\ last.logFunc = DiscardLogFunc /\ Len(Execs(last)) = 1

\* the invocations of the primitive made by call number n
ExecsOf(n) == {i \in 1..Len(events) : events[i].call = n /\ events[i].kind = "exec"}

\* the last call is one that goes on to the primitive: dry-run is off, or the
\* call is a Glob
LastExecutes ==
    /\ last.op \in CallOps /\ last.logFunc # NilFunc
    /\ (~last.dry \/ last.op = "Glob")

\* C26: no call of Run, Shell, FileExists, DirExists, Glob or Rsync invokes
\* the primitive more than once, and a call that executes invokes it exactly
\* once, also when the invocation fails or the command exits non-zero.
C26_NoRetries ==
    /\ \A n \in 1..ncalls : Cardinality(ExecsOf(n)) <= 1
    /\ (last.op \in CallOps => Len(Execs(last)) <= 1)
    /\ (LastExecutes => Len(Execs(last)) = 1)

C26_Witness ==
    /\ last.op = "Run" /\ LastExecutes
    /\ LastPrim.err # << >>
    /\ Len(Execs(last)) = 1
    /\ Cardinality(ExecsOf(ncalls)) = 1

\* the last call was a FileExists or DirExists that went on to the primitive
LastStatCalled == LastExists /\ ~last.dry /\ Execs(last) # << >>

\* C27: when the primitive signals an ExecutionError during a FileExists or
\* DirExists with dry-run off, the call returns false and a non-nil error,
\* whatever the text of the error.
C27_ExecutionErrorIsReported ==
    (LastStatCalled /\ LastPrim.err # << >>) =>
        /\ last.ret # << >>
        /\ ~last.ret[1].ok
        /\ last.ret[1].err # << >>

\* C28: FileExists and DirExists return a (bool, error) pair for every result
\* of the primitive, exit code 0 with an empty stdout or a stdout without ':'
\* included.
C28_ExistsAlwaysReturns ==
    LastExists => last.ret # << >>

\* C29: every constructed LogRun holds a callable callback, whatever setters
\* were called on it, so no call of Run, Shell or a derived operation finds
\* a nil callback.
C29_CallbackIsCallable ==
    /\ \A id \in RunnerIds : Constructed(id) => runners[id][1].logFunc # NilFunc
    /\ (last.op \in CallOps => last.logFunc # NilFunc)

\* the step in which the call in flight reads the flag and returns
Finishes == inflight # << >> /\ inflight[1].pc = "logged" /\ inflight'[1].pc = "returned"

\* C30: a Run or Shell call during which another caller stores the flag of
\* the same LogRun has logged its command exactly once, reads the flag once
\* after that, and ends in one of two ways: the flag it reads is set and it
\* returns ("", "", ExitOK) without invoking the primitive, or the flag is
\* clear and it invokes the primitive once and returns its mapped result.
C30_RacingRunHasTwoOutcomes ==
    [][Finishes =>
          /\ last'.ret # << >>
          /\ Logged(last') = inflight[1].logged
          /\ Len(Logged(last')) = 1
          /\ IF runners[inflight[1].r][1].Dryrun
             THEN /\ Execs(last') = << >>
                  /\ last'.ret[1] = [stdout |-> << >>, stderr |-> << >>, code |-> ExitOK]
             ELSE /\ Len(Execs(last')) = 1
                  /\ last'.ret[1] =
                        IF last'.op = "Run" THEN run(Execs(last')[1].prim)
                        ELSE shell(Execs(last')[1].prim)]_vars

C30_Witness ==
    /\ inflight # << >> /\ inflight[1].pc = "returned"
    /\ ~inflight[1].dry0
    /\ last.op = "Shell" /\ last.r = "std" /\ last.dry
    /\ Len(Logged(last)) = 1 /\ Execs(last) = << >>
    /\ last.ret = <<[stdout |-> << >>, stderr |-> << >>, code |-> ExitOK]>>

====
